---- MODULE Spec2Model ----
(***************************************************************************)
(* The thamluan workflow: the LangGraph state machine of core/auto.py      *)
(* (manager node, conditional edge route_from_manager, six worker nodes,   *)
(* conditional edge should_continue), the ManagerAgent decision logic of   *)
(* agents/manager.py and the worker agents of agents/dev.py, agents/res.py *)
(* acting on the shared AgentState of core/types.py.                       *)
(*                                                                         *)
(* Task objects are Python objects shared by reference between             *)
(* state['current_task'] and state['task_history']: state.tasks is the     *)
(* heap of Task objects in allocation order, current_task and the elements *)
(* of task_history are references (indices) into it, 0 standing for None.  *)
(***************************************************************************)
EXTENDS Integers, Sequences, FiniteSets, TLC

(* ---- bounds of the model ---------------------------------------------- *)
\* seconds the wall clock (datetime.now(), one-second resolution of the
\* task_id format) may advance during a run
MaxClock == 1
\* number of distinct article URLs a search can return
MaxUrls == 2
\* cycles (manager step, worker step) run to collect the states two manager
\* steps are compared on
MaxCycles == 5
\* number of routing words in a name the LLM answers with
MaxKeywords == 2
\* number of messages in the state the autodata manager is called on
MaxMessages == 2

(* ---- program constants ------------------------------------------------ *)
ERROR_THRESHOLD == 5
RECURSION_LIMIT == 100
SCRAPE_MAX_LOOP == 5
EXPORT_MAX_LOOP == 3

URLS == 1 .. MaxUrls

CRAWL_WEB == "crawl_web"
DOWNLOAD_PDF == "download_pdf"
EXTRACT_CONTENT == "extract_content"
SEARCH_OPINIONS == "search_opinions"
SCRAPE_ARTICLES == "scrape_articles"
EXPORT_DATA == "export_data"

TaskType ==
    {CRAWL_WEB, DOWNLOAD_PDF, EXTRACT_CONTENT, SEARCH_OPINIONS, SCRAPE_ARTICLES, EXPORT_DATA}

PENDING == "pending"
IN_PROGRESS == "in_progress"
COMPLETED == "completed"
FAILED == "failed"
SKIPPED == "skipped"

TaskStatus == {PENDING, IN_PROGRESS, COMPLETED, FAILED, SKIPPED}

\* the worker nodes of the graph
WorkerNodes ==
    {"web_crawler", "pdf_handler", "content_extractor", "search_agent",
     "article_analyzer", "exporter_agent"}

\* the value of an absent current_task
None == 0

VARIABLES
    pc,            \* the node or conditional edge the engine runs next
    steps,         \* node executions so far (LangGraph supersteps)
    now,           \* wall clock, in seconds
    state,         \* the AgentState threaded through the nodes
    report,        \* the reports generated so far: <<>>, then <<report>>
    ever_current,  \* history: the references that have been current_task
    inA, inB,      \* two router inputs ...
    outA, outB     \* ... and the decisions of the manager on them

wfvars == <<pc, steps, now, state, report, ever_current>>

rvars == <<inA, inB, outA, outB>>

vars == <<wfvars, rvars>>

(* ---- core/types.py ---------------------------------------------------- *)

\* Task(task_id, task_type, input_data): status PENDING, no output, no
\* error_message; input_urls is input_data['urls_to_scrape']
Task(task_id, task_type, input_urls) ==
    [task_id |-> task_id, task_type |-> task_type, status |-> PENDING,
     input_urls |-> input_urls, error_message |-> FALSE,
     max_loop_reached |-> FALSE, completed_at |-> FALSE]

\* create_initial_state.  tasks is the heap of Task objects; current_task and
\* the elements of task_history are references into it.  errors is
\* len(state['errors']), analyzed_articles is len(state['analyzed_articles']).
create_initial_state ==
    [tasks |-> <<>>,
     current_task |-> None,
     task_history |-> <<>>,
     pdf_document |-> FALSE,
     pdf_local_path |-> FALSE,
     extracted_keywords |-> "None",
     search_results |-> {},
     analyzed_articles |-> 0,
     processed_urls |-> {},
     scrape_articles_done |-> FALSE,
     scrape_loop_count |-> 0,
     export_loop_count |-> 0,
     csv_output_path |-> FALSE,
     errors |-> 0,
     is_complete |-> FALSE]

\* update_state_task: state["current_task"] = task;
\* state["task_history"].append(task)
\* update_state_task starting the history over with the new task
update_state_task_restarting(s, task) ==
    [s EXCEPT !.current_task = task, !.task_history = <<task>>]

\* update_state_task putting the new task in front of the history
update_state_task_prepending(s, task) ==
    [s EXCEPT !.current_task = task, !.task_history = <<task>> \o @]

\* update_state_task without the append
update_state_task_not_appending(s, task) ==
    [s EXCEPT !.current_task = task]

update_state_task(s, task) ==
    [s EXCEPT !.current_task = task, !.task_history = Append(@, task)]

(* ---- agents/base.py --------------------------------------------------- *)

\* create_task: the id is "<role>_<YYYYmmdd_HHMMSS>"; every task is created
\* by the manager, so the id is the second of its creation
create_task(task_type, input_urls, clock) == Task(clock, task_type, input_urls)

\* complete_task(task, output_data, error): mutates the Task object;
\* max_loop_flag is output_data['max_loop_reached']
complete_task(task, max_loop_flag, error) ==
    IF error
    THEN [task EXCEPT !.status = FAILED, !.error_message = TRUE,
                      !.completed_at = TRUE]
    ELSE [task EXCEPT !.status = COMPLETED, !.max_loop_reached = max_loop_flag,
                      !.completed_at = TRUE]

\* log_error: state['errors'].append({'agent': role, ...})
log_error(s, role) ==
    [s EXCEPT !.errors = @ + 1]

\* the current task completed in place (task = self.complete_task(current_task, ...))
complete_current(s, max_loop_flag, error) ==
    [s EXCEPT !.tasks[s.current_task] = complete_task(@, max_loop_flag, error)]

\* the guard without the test of the task type
not_my_task_without_type(s, task_type) ==
    s.current_task = None

\* `not current_task or current_task.task_type != task_type`
not_my_task(s, task_type) ==
    \/ s.current_task = None
    \/ s.tasks[s.current_task].task_type # task_type

(* ---- agents/manager.py ------------------------------------------------ *)

\* the Task objects of state['task_history'], in order
history(s) == [i \in DOMAIN s.task_history |-> s.tasks[s.task_history[i]]]

completed_types(s) ==
    {history(s)[i].task_type :
        i \in {j \in DOMAIN s.task_history : history(s)[j].status = COMPLETED}}

\* task_already_created that finds no task at all
task_already_created_never(s, task_type) ==
    FALSE

\* task_already_created that only counts tasks that have completed
task_already_created_if_completed(s, task_type) ==
    \E i \in DOMAIN s.task_history :
        history(s)[i].task_type = task_type /\ history(s)[i].status = COMPLETED

task_already_created(s, task_type) ==
    \/ \E i \in DOMAIN s.task_history : history(s)[i].task_type = task_type
    \/ (s.current_task # None /\ s.tasks[s.current_task].task_type = task_type)

\* the chain testing pdf_local_path where it should test pdf_document
chain_next_task_wrong_field(s) ==
    LET c == completed_types(s) IN
    IF CRAWL_WEB \in c /\ DOWNLOAD_PDF \notin c
    THEN IF ~task_already_created(s, DOWNLOAD_PDF) /\ s.pdf_local_path
         THEN DOWNLOAD_PDF ELSE "none"
    ELSE IF DOWNLOAD_PDF \in c /\ EXTRACT_CONTENT \notin c
    THEN IF ~task_already_created(s, EXTRACT_CONTENT) /\ s.pdf_local_path
         THEN EXTRACT_CONTENT ELSE "none"
    ELSE IF EXTRACT_CONTENT \in c /\ SEARCH_OPINIONS \notin c
    THEN IF ~task_already_created(s, SEARCH_OPINIONS)
            /\ s.extracted_keywords # "None"
         THEN SEARCH_OPINIONS ELSE "none"
    ELSE "none"

\* lines 103-131: the if / elif / elif chain; "none" is next_task = None
chain_next_task(s) ==
    LET c == completed_types(s) IN
    IF CRAWL_WEB \in c /\ DOWNLOAD_PDF \notin c
    THEN IF ~task_already_created(s, DOWNLOAD_PDF) /\ s.pdf_document
         THEN DOWNLOAD_PDF ELSE "none"
    ELSE IF DOWNLOAD_PDF \in c /\ EXTRACT_CONTENT \notin c
    THEN IF ~task_already_created(s, EXTRACT_CONTENT) /\ s.pdf_local_path
         THEN EXTRACT_CONTENT ELSE "none"
    ELSE IF EXTRACT_CONTENT \in c /\ SEARCH_OPINIONS \notin c
    THEN IF ~task_already_created(s, SEARCH_OPINIONS)
            /\ s.extracted_keywords # "None"
         THEN SEARCH_OPINIONS ELSE "none"
    ELSE "none"

\* lines 143-144
scrape_task_exists(s) ==
    \/ \E i \in DOMAIN s.task_history : history(s)[i].task_type = SCRAPE_ARTICLES
    \/ (s.current_task # None /\ s.tasks[s.current_task].task_type = SCRAPE_ARTICLES)

\* the scrape block entered whenever the search has completed
scrape_block_unguarded(s) ==
    SEARCH_OPINIONS \in completed_types(s)

\* lines 150-152: the condition of the scrape block
scrape_block(s) ==
    /\ SEARCH_OPINIONS \in completed_types(s)
    /\ ~s.scrape_articles_done
    /\ ~scrape_task_exists(s)

\* line 158
urls_to_scrape(s) == s.search_results \ s.processed_urls

\* next_task after the scrape block (lines 150-173)
scrape_next_task(s) ==
    IF scrape_block(s) /\ urls_to_scrape(s) # {}
    THEN SCRAPE_ARTICLES ELSE chain_next_task(s)

\* scrape_is_done that never marks the stage done itself
scrape_is_done_flag_only(s) ==
    s.scrape_articles_done

\* scrape_is_done that forgets the flag the worker left in the state
scrape_is_done_only_here(s) ==
    scrape_block(s) /\ urls_to_scrape(s) = {}

\* state['scrape_articles_done'] after the scrape block (lines 169, 173)
scrape_is_done(s) ==
    IF scrape_block(s) /\ urls_to_scrape(s) = {}
    THEN TRUE ELSE s.scrape_articles_done

\* lines 77-213: the decision of one manager step: the type of the task it
\* creates ("none" when it creates none) and the flags it leaves in the state
_monitor_and_decide(s) ==
    LET c == completed_types(s)
        done == scrape_is_done(s)
    IN  IF done /\ EXPORT_DATA \notin c
        THEN IF ~task_already_created(s, EXPORT_DATA)
             THEN IF s.analyzed_articles > 0
                  THEN [next_task |-> EXPORT_DATA, scrape_articles_done |-> done,
                        is_complete |-> s.is_complete]
                  ELSE [next_task |-> scrape_next_task(s), scrape_articles_done |-> done,
                        is_complete |-> TRUE]
             ELSE [next_task |-> scrape_next_task(s), scrape_articles_done |-> done,
                   is_complete |-> s.is_complete]
        ELSE IF EXPORT_DATA \in c
        THEN \* line 198: early return, next_task is dropped
             [next_task |-> "none", scrape_articles_done |-> done, is_complete |-> TRUE]
        ELSE [next_task |-> scrape_next_task(s), scrape_articles_done |-> done,
              is_complete |-> s.is_complete]

\* lines 53-75: the first task
_start_workflow(s) ==
    [next_task |-> CRAWL_WEB, scrape_articles_done |-> s.scrape_articles_done,
     is_complete |-> s.is_complete]

\* execute giving up as soon as an error is on record
decide_giving_up(s) ==
    IF s.current_task = None THEN _start_workflow(s)
    ELSE IF s.errors > 0
    THEN [next_task |-> "none", scrape_articles_done |-> s.scrape_articles_done,
          is_complete |-> TRUE]
    ELSE _monitor_and_decide(s)

\* lines 44-47
decide(s) ==
    IF s.current_task = None THEN _start_workflow(s) ELSE _monitor_and_decide(s)

\* set_next_task without the update of current_task
set_next_task_not_current(s, task_type, clock) ==
    LET ref == Len(s.tasks) + 1
        input == IF task_type = SCRAPE_ARTICLES THEN urls_to_scrape(s) ELSE {}
        s1 == [s EXCEPT !.tasks = Append(@, create_task(task_type, input, clock))]
    IN  [s1 EXCEPT !.task_history = Append(@, ref)]

\* lines 203-207 (and 65-72): the new Task object is allocated, becomes
\* current_task (update_state) and is appended (update_state_task)
set_next_task(s, task_type, clock) ==
    LET ref == Len(s.tasks) + 1
        input == IF task_type = SCRAPE_ARTICLES THEN urls_to_scrape(s) ELSE {}
        s1 == [s EXCEPT !.tasks = Append(@, create_task(task_type, input, clock))]
        s2 == [s1 EXCEPT !.current_task = ref]
    IN  update_state_task(s2, ref)

\* ManagerAgent.execute (lines 35-51).  raised: an exception is raised in the
\* try block; every statement that can raise precedes the first assignment to
\* the state, so the handler logs the error on the state as it was on entry.
ManagerAgent_execute(s, clock, raised) ==
    IF raised
    THEN log_error(s, "manager")
    ELSE LET d == decide(s)
             s1 == [s EXCEPT !.scrape_articles_done = d.scrape_articles_done,
                             !.is_complete = d.is_complete]
         IN  IF d.next_task # "none"
             THEN set_next_task(s1, d.next_task, clock)
             ELSE s1

\* generate_report (lines 215-237)
generate_report(s) ==
    [completed_at |-> s.is_complete,
     total_tasks |-> Len(s.task_history),
     completed_tasks |-> Cardinality({i \in DOMAIN s.task_history : history(s)[i].status = COMPLETED}),
     failed_tasks |-> Cardinality({i \in DOMAIN s.task_history : history(s)[i].status = FAILED}),
     errors_count |-> s.errors,
     pdf_processed |-> s.pdf_local_path,
     keywords_extracted |-> s.extracted_keywords # "None",
     csv_exported |-> s.csv_output_path]

(* ---- agents/dev.py ---------------------------------------------------- *)

\* what the tools and the surroundings of a worker can do in one execution:
\* "ok" the tool succeeds with data, "ok_empty" it succeeds with nothing
\* found, "failed" it returns ToolResult(success=False), "exception" an
\* exception reaches the worker's except clause
Outcomes == {"ok", "ok_empty", "failed", "exception"}

\* WebCrawlerAgent.execute (lines 37-82)
WebCrawlerAgent_execute(s, outcome) ==
    IF not_my_task(s, CRAWL_WEB) THEN s
    ELSE IF outcome = "failed"
    THEN \* lines 52-54: the task is FAILED, nothing is logged
         complete_current(s, FALSE, TRUE)
    ELSE IF outcome = "ok_empty"
    THEN \* lines 58-60: logged, the task is left as it is
         log_error(s, "web_crawler")
    ELSE IF outcome = "exception"
    THEN log_error(s, "web_crawler")
    ELSE [complete_current(s, FALSE, FALSE) EXCEPT !.pdf_document = TRUE]

\* PDFHandlerAgent.execute (lines 97-142)
PDFHandlerAgent_execute(s, outcome) ==
    IF not_my_task(s, DOWNLOAD_PDF) THEN s
    ELSE IF ~s.pdf_document THEN log_error(s, "pdf_handler")
    ELSE IF outcome = "ok"
    THEN [complete_current(s, FALSE, FALSE) EXCEPT
              !.pdf_document = TRUE, !.pdf_local_path = TRUE]
    ELSE \* download failed, info failed or exception: logged only
         log_error(s, "pdf_handler")

\* ContentExtractorAgent.execute (lines 159-223)
ContentExtractorAgent_execute(s, outcome) ==
    IF not_my_task(s, EXTRACT_CONTENT) THEN s
    ELSE IF ~s.pdf_local_path THEN log_error(s, "content_extractor")
    ELSE IF outcome \in {"ok", "ok_empty"}
    THEN [complete_current(s, FALSE, FALSE) EXCEPT
              !.extracted_keywords = IF outcome = "ok" THEN "some" ELSE "empty"]
    ELSE log_error(s, "content_extractor")

(* ---- agents/res.py ---------------------------------------------------- *)

\* the first k elements of a set of URLs (the tools go through their URLs in
\* order)
first(k, urls) == {u \in urls : Cardinality({v \in urls : v < u}) < k}

\* SearchAgent.execute (lines 25-178); k: the number of valid unique result
\* URLs (state['search_results'] = final_results)
SearchAgent_execute(s, outcome, k) ==
    IF not_my_task(s, SEARCH_OPINIONS) THEN s
    ELSE IF s.extracted_keywords = "None"
    THEN log_error(complete_current(s, FALSE, TRUE), "search_agent")
    ELSE IF outcome \in {"failed", "ok_empty"}
    THEN \* query generation failed (45-47) or no result at all (80-83)
         log_error(complete_current(s, FALSE, TRUE), "search_agent")
    ELSE IF outcome = "exception"
    THEN log_error(s, "search_agent")
    ELSE [complete_current(s, FALSE, FALSE) EXCEPT !.search_results = first(k, URLS)]

\* the URLs scrape_multiple_articles can return articles for
scrapable(s) == s.tasks[s.current_task].input_urls \ s.processed_urls

\* ArticleAnalyzerAgent.execute (lines 202-297); k: with "ok" the number of
\* articles scraped, with "exception" the number of articles analysed and
\* appended to state['analyzed_articles'] before the exception was raised on
\* a later article
ArticleAnalyzerAgent_execute(s, outcome, k) ==
    IF not_my_task(s, SCRAPE_ARTICLES) THEN s
    ELSE IF s.scrape_loop_count >= SCRAPE_MAX_LOOP
    THEN [complete_current(s, TRUE, FALSE) EXCEPT !.scrape_articles_done = TRUE]
    ELSE IF s.tasks[s.current_task].input_urls = {}
    THEN [complete_current(s, FALSE, FALSE) EXCEPT !.scrape_articles_done = TRUE]
    ELSE IF outcome \in {"ok", "ok_empty"}
    THEN LET scraped == IF outcome = "ok" THEN first(k, scrapable(s)) ELSE {}
         IN  [complete_current(s, FALSE, FALSE) EXCEPT
                  !.processed_urls = @ \cup scraped,
                  !.analyzed_articles = @ + Cardinality(scraped),
                  !.scrape_articles_done = TRUE,
                  !.scrape_loop_count = s.scrape_loop_count + 1]
    ELSE IF outcome = "failed"
    THEN [log_error(complete_current(s, FALSE, TRUE), "scraper_agent") EXCEPT
              !.scrape_articles_done = TRUE,
              !.scrape_loop_count = s.scrape_loop_count + 1]
    ELSE LET partial == IF k < Cardinality(scrapable(s))
                        THEN first(k, scrapable(s)) ELSE {}
         IN  [log_error(complete_current(s, FALSE, TRUE), "scraper_agent") EXCEPT
                  !.analyzed_articles = @ + Cardinality(partial),
                  !.scrape_articles_done = TRUE,
                  !.scrape_loop_count = s.scrape_loop_count + 1]

\* ExporterAgent.execute (lines 312-415)
ExporterAgent_execute(s, outcome) ==
    IF s.export_loop_count >= EXPORT_MAX_LOOP THEN s
    ELSE IF not_my_task(s, EXPORT_DATA) THEN s
    ELSE IF s.analyzed_articles = 0
    THEN log_error([complete_current(s, FALSE, TRUE) EXCEPT !.is_complete = TRUE],
                   "scraper_agent")
    ELSE IF outcome \in {"failed", "ok_empty"}
    THEN log_error([complete_current(s, FALSE, TRUE) EXCEPT !.is_complete = TRUE],
                   "scraper_agent")
    ELSE IF outcome = "exception"
    THEN log_error([complete_current(s, FALSE, TRUE) EXCEPT
                        !.is_complete = TRUE,
                        !.export_loop_count = s.export_loop_count + 1],
                   "scraper_agent")
    ELSE [complete_current(s, FALSE, FALSE) EXCEPT
              !.csv_output_path = TRUE,
              !.is_complete = TRUE,
              !.export_loop_count = s.export_loop_count + 1]

(* ---- core/auto.py ----------------------------------------------------- *)

\* the static type -> node table of route_from_manager (lines 55-63)
next_agent(task_type) ==
    CASE task_type = CRAWL_WEB -> "web_crawler"
      [] task_type = DOWNLOAD_PDF -> "pdf_handler"
      [] task_type = EXTRACT_CONTENT -> "content_extractor"
      [] task_type = SEARCH_OPINIONS -> "search_agent"
      [] task_type = SCRAPE_ARTICLES -> "article_analyzer"
      [] task_type = EXPORT_DATA -> "exporter_agent"
      [] OTHER -> "END"

\* route_from_manager without the is_complete test
route_from_manager_by_task_only(s) ==
    IF s.current_task = None THEN "END"
    ELSE next_agent(s.tasks[s.current_task].task_type)

\* route_from_manager (lines 39-66): the conditional edge after the manager
route_from_manager(s) ==
    IF s.current_task = None THEN "END"
    ELSE IF s.is_complete THEN "END"
    ELSE next_agent(s.tasks[s.current_task].task_type)

\* should_continue ending the run at the threshold rather than above it
should_continue_at_threshold(s) ==
    IF s.is_complete \/ s.errors >= ERROR_THRESHOLD THEN "END" ELSE "manager"

\* should_continue (lines 69-72): the conditional edge after every worker
should_continue(s) ==
    IF s.is_complete \/ s.errors > ERROR_THRESHOLD THEN "END" ELSE "manager"

\* the node run by a worker node of the graph (lines 29-36)
node_execute(node, s, outcome, k) ==
    CASE node = "web_crawler" -> WebCrawlerAgent_execute(s, outcome)
      [] node = "pdf_handler" -> PDFHandlerAgent_execute(s, outcome)
      [] node = "content_extractor" -> ContentExtractorAgent_execute(s, outcome)
      [] node = "search_agent" -> SearchAgent_execute(s, outcome, k)
      [] node = "article_analyzer" -> ArticleAnalyzerAgent_execute(s, outcome, k)
      [] node = "exporter_agent" -> ExporterAgent_execute(s, outcome)

(* ---- the run: run_workflow_async (core/auto.py lines 100-141) --------- *)

Init ==
    /\ pc = "manager"
    /\ steps = 0
    /\ now = 0
    /\ state = create_initial_state
    /\ report = <<>>
    /\ ever_current = {}
    /\ inA = "None" /\ inB = "None" /\ outA = "None" /\ outB = "None"

\* the manager node followed by its conditional edge
manager ==
    /\ pc = "manager"
    /\ steps < RECURSION_LIMIT
    /\ \E raised \in BOOLEAN : state' = ManagerAgent_execute(state, now, raised)
    /\ pc' = route_from_manager(state')
    /\ steps' = steps + 1
    /\ ever_current' = ever_current \cup ({state'.current_task} \ {None})
    /\ UNCHANGED <<now, report, rvars>>

\* a worker node followed by should_continue
worker ==
    /\ pc \in WorkerNodes
    /\ steps < RECURSION_LIMIT
    /\ \E outcome \in Outcomes, k \in 0 .. MaxUrls :
           state' = node_execute(pc, state, outcome, k)
    /\ pc' = should_continue(state')
    /\ steps' = steps + 1
    /\ ever_current' = ever_current \cup ({state'.current_task} \ {None})
    /\ UNCHANGED <<now, report, rvars>>

\* app.ainvoke raises GraphRecursionError when a node is due after
\* recursion_limit steps (line 124); run_workflow_async re-raises it
GraphRecursionError ==
    /\ pc \in WorkerNodes \cup {"manager"}
    /\ steps >= RECURSION_LIMIT
    /\ pc' = "GraphRecursionError"
    /\ UNCHANGED <<steps, now, state, report, ever_current, rvars>>

\* the graph reached END: the report is generated from the final state
\* (line 129)
finish ==
    /\ pc = "END"
    /\ report' = <<generate_report(state)>>
    /\ pc' = "returned"
    /\ UNCHANGED <<steps, now, state, ever_current, rvars>>

Next == manager \/ worker \/ GraphRecursionError \/ finish

\* The run within one second of the wall clock.  task_id is the only place
\* the clock goes to and no code reads task_id, so the clock has no influence
\* on the rest of the state.
Spec == Init /\ [][Next]_vars

\* a second of the wall clock goes by while a worker does its I/O
tick ==
    /\ pc \in WorkerNodes
    /\ now < MaxClock
    /\ now' = now + 1
    /\ UNCHANGED <<pc, steps, state, report, ever_current, rvars>>

NextClock == Next \/ tick

\* The run with the wall clock advancing.
SpecClock == Init /\ [][NextClock]_vars

(* ---- helpers of the properties ----------------------------------------- *)

\* the Task object of state['current_task'] (only where there is one)
current(s) == s.tasks[s.current_task]

\* the positions of task_history that hold a task of the given type
of_type(s, task_type) ==
    {i \in DOMAIN s.task_history : history(s)[i].task_type = task_type}

\* the references held by current_task or task_history
referenced(s) ==
    {s.task_history[i] : i \in DOMAIN s.task_history} \cup ({s.current_task} \ {None})

(* ---- C1 ---------------------------------------------------------------- *)

\* C1: in every step of a run (manager or worker) task_history does not get
\* shorter, every entry keeps its position, and the task_id and task_type of
\* every entry stay what they were.
C1_MonotoneHistory ==
    [][/\ Len(state'.task_history) >= Len(state.task_history)
       /\ \A i \in DOMAIN state.task_history :
              /\ state'.task_history[i] = state.task_history[i]
              /\ history(state')[i].task_id = history(state)[i].task_id
              /\ history(state')[i].task_type = history(state)[i].task_type]_vars

\* C1 witness: two tasks are in the history and workers have acted on both
C1_Witness ==
    /\ Len(state.task_history) >= 2
    /\ history(state)[1].status = COMPLETED
    /\ history(state)[2].status = COMPLETED

(* ---- C2 ---------------------------------------------------------------- *)

\* C2: in every reachable state, for each task type at most one task held by
\* task_history or current_task is PENDING or IN_PROGRESS.
C2_NoDuplicateInFlight ==
    \A task_type \in TaskType :
        Cardinality({r \in referenced(state) :
                        /\ state.tasks[r].task_type = task_type
                        /\ state.tasks[r].status \in {PENDING, IN_PROGRESS}}) <= 1

\* C2 witness: the DOWNLOAD_PDF task is still PENDING after its worker
\* failed, and the manager has run again and handed it to the worker again
C2_Witness ==
    /\ pc = "pdf_handler"
    /\ state.errors >= 1
    /\ steps >= 5
    /\ Len(state.task_history) = 2
    /\ current(state).task_type = DOWNLOAD_PDF
    /\ current(state).status = PENDING

(* ---- C3 ---------------------------------------------------------------- *)

\* C3: in no reachable state is a worker dispatched (the engine about to run
\* a worker node) while more than ERROR_THRESHOLD errors are recorded.
C3_NoDispatchAboveThreshold ==
    pc \in WorkerNodes => state.errors <= ERROR_THRESHOLD

(* ---- C4 ---------------------------------------------------------------- *)

\* C4: when the run has stopped with more than ERROR_THRESHOLD errors
\* recorded, the final state has is_complete = true.
C4_ThresholdStopIsComplete ==
    (pc \in {"END", "returned"} /\ state.errors > ERROR_THRESHOLD) => state.is_complete

(* ---- C5 ---------------------------------------------------------------- *)

\* C5: once the scrape worker has executed SCRAPE_MAX_LOOP times
\* (scrape_loop_count counts its executions) no step creates a new
\* SCRAPE_ARTICLES task, and once the exporter has executed EXPORT_MAX_LOOP
\* times no step creates a new EXPORT_DATA task.
C5_LoopBound ==
    [][/\ state.scrape_loop_count >= SCRAPE_MAX_LOOP
            => of_type(state', SCRAPE_ARTICLES) = of_type(state, SCRAPE_ARTICLES)
       /\ state.export_loop_count >= EXPORT_MAX_LOOP
            => of_type(state', EXPORT_DATA) = of_type(state, EXPORT_DATA)]_vars

\* C5 witness: the scrape worker has executed SCRAPE_MAX_LOOP times and the
\* manager step that followed created an EXPORT_DATA task
C5_Witness ==
    /\ state.scrape_loop_count >= SCRAPE_MAX_LOOP
    /\ pc = "exporter_agent"
    /\ Cardinality(of_type(state, SCRAPE_ARTICLES)) = 1

(* ---- C7 ---------------------------------------------------------------- *)

\* C7: is_complete is never reset, and while it is set no worker node is due.
C7_CompleteIsTerminal ==
    /\ [](state.is_complete => pc \notin WorkerNodes)
    /\ [][state.is_complete => state'.is_complete]_vars

\* C7 witness: the run ended after the manager set is_complete while a
\* completed SCRAPE_ARTICLES task was the current task
C7_Witness ==
    /\ state.is_complete
    /\ pc = "returned"
    /\ state.current_task # None
    /\ current(state).task_type = SCRAPE_ARTICLES

(* ---- C8 ---------------------------------------------------------------- *)

\* the place of a status in PENDING -> IN_PROGRESS -> {COMPLETED, FAILED, SKIPPED}
rank(status) ==
    CASE status = PENDING -> 0
      [] status = IN_PROGRESS -> 1
      [] OTHER -> 2

\* C8: in every step the status of every task either stays or moves forward
\* in PENDING -> IN_PROGRESS -> {COMPLETED, FAILED, SKIPPED}; a COMPLETED,
\* FAILED or SKIPPED task keeps its status.
C8_StatusMonotone ==
    [][\A r \in DOMAIN state.tasks :
           /\ rank(state'.tasks[r].status) >= rank(state.tasks[r].status)
           /\ rank(state.tasks[r].status) = 2
                => state'.tasks[r].status = state.tasks[r].status]_vars

(* ---- C9 ---------------------------------------------------------------- *)

\* C9: in every reachable state every task that is or was current_task
\* occurs exactly once in task_history.
C9_CurrentOnceInHistory ==
    \A r \in ever_current \cup ({state.current_task} \ {None}) :
        Cardinality({i \in DOMAIN state.task_history : state.task_history[i] = r}) = 1

\* C9 witness: three tasks have been current_task
C9_Witness ==
    /\ Cardinality(ever_current) >= 3
    /\ state.current_task = 3

(* ---- C10 --------------------------------------------------------------- *)

\* C10: a worker step appends to state.errors exactly when it marks the
\* current task FAILED with error_message set.
C10_FailureContract ==
    [][(pc \in WorkerNodes /\ state.current_task # None) =>
          /\ state'.errors > state.errors
               => (current(state').status = FAILED /\ current(state').error_message)
          /\ (current(state).status # FAILED /\ current(state').status = FAILED)
               => state'.errors > state.errors]_vars

(* ---- two manager steps side by side ------------------------------------ *)

\* the states in which the worker node run on s hands over to the manager
\* (should_continue = "manager"), for every result of the worker's tools
after_worker(s) ==
    IF route_from_manager(s) \in WorkerNodes
    THEN {w \in {node_execute(route_from_manager(s), s, outcome, k) :
                     outcome \in Outcomes, k \in 0 .. MaxUrls} :
              should_continue(w) = "manager"}
    ELSE {}

\* the states that reach the manager node after one more manager step and
\* worker step
cycle(s) ==
    UNION {after_worker(ManagerAgent_execute(s, 0, raised)) : raised \in BOOLEAN}

\* the states in which the manager node is entered within n cycles of a run
RECURSIVE manager_entry(_)
manager_entry(n) ==
    IF n = 0
    THEN {create_initial_state}
    ELSE LET prev == manager_entry(n - 1)
         IN  prev \cup UNION {cycle(s) : s \in prev}

\* task types and statuses of task_history, in order
signature(s) ==
    [i \in DOMAIN s.task_history |->
        <<history(s)[i].task_type, history(s)[i].status>>]

\* the states the two manager steps are drawn from
manager_entries == manager_entry(MaxCycles)

same_history(a, b) == signature(a) = signature(b)

same_counters(a, b) ==
    /\ a.scrape_loop_count = b.scrape_loop_count
    /\ a.export_loop_count = b.export_loop_count

\* what the accumulator fields look like to the tests of _monitor_and_decide
\* (manager.py lines 105-106, 115-116, 125-126, 151-159, 177, 183-184)
accumulators(s) ==
    [pdf_document |-> s.pdf_document,
     pdf_local_path |-> s.pdf_local_path,
     extracted_keywords |-> s.extracted_keywords # "None",
     search_results |-> s.search_results # {},
     urls_to_scrape |-> urls_to_scrape(s) # {},
     analyzed_articles |-> s.analyzed_articles > 0,
     scrape_articles_done |-> s.scrape_articles_done]

\* the decision of the manager step that took state in to state out: the
\* type of the task it created, if any, and whether the run ends
decision(in, out) ==
    [next_task |-> IF Len(out.task_history) > Len(in.task_history)
                   THEN current(out).task_type
                   ELSE "none",
     terminate |-> route_from_manager(out) = "END"]

RouterInit ==
    /\ pc = "router"
    /\ steps = 0
    /\ now = 0
    /\ state = create_initial_state
    /\ report = <<>>
    /\ ever_current = {}
    /\ inA \in manager_entries
    /\ inB \in {b \in manager_entries :
                    same_history(inA, b) /\ same_counters(inA, b)}
    /\ outA = "None"
    /\ outB = "None"

\* the manager node runs on both states
route_pair ==
    /\ pc = "router"
    /\ outA' = ManagerAgent_execute(inA, now, FALSE)
    /\ outB' = ManagerAgent_execute(inB, now, FALSE)
    /\ pc' = "routed"
    /\ UNCHANGED <<steps, now, state, report, ever_current, inA, inB>>

SpecRouter == RouterInit /\ [][route_pair]_vars

(* ---- C6 ---------------------------------------------------------------- *)

declared_type(node) ==
    CASE node = "web_crawler" -> CRAWL_WEB
      [] node = "pdf_handler" -> DOWNLOAD_PDF
      [] node = "content_extractor" -> EXTRACT_CONTENT
      [] node = "search_agent" -> SEARCH_OPINIONS
      [] node = "article_analyzer" -> SCRAPE_ARTICLES
      [] node = "exporter_agent" -> EXPORT_DATA

\* the states of a run before and after a manager step, within MaxCycles
\* cycles
run_states ==
    manager_entries \cup
    {ManagerAgent_execute(s, 0, raised) : s \in manager_entries, raised \in BOOLEAN}

\* inA holds the worker that is called, state its argument
WorkerInit ==
    /\ pc = "worker_call"
    /\ steps = 0
    /\ now = 0
    /\ state \in run_states
    /\ report = <<>>
    /\ ever_current = {}
    /\ inA \in WorkerNodes
    /\ inB = "None"
    /\ outA = "None"
    /\ outB = "None"

\* execute of worker inA is called on state, outA is what it returns
call_worker ==
    /\ pc = "worker_call"
    /\ \E outcome \in Outcomes, k \in 0 .. MaxUrls :
           outA' = node_execute(inA, state, outcome, k)
    /\ pc' = "worker_returned"
    /\ UNCHANGED <<steps, now, state, report, ever_current, inA, inB, outB>>

SpecWorker == WorkerInit /\ [][call_worker]_vars

(* ---- C11 --------------------------------------------------------------- *)

\* C11: a worker called on a state without current_task, or whose
\* current_task is not of the worker's declared type, returns the state
\* unchanged.
C11_WorkerNoop ==
    (/\ pc = "worker_returned"
     /\ \/ state.current_task = None
        \/ current(state).task_type # declared_type(inA))
        => outA = state

\* C11 witness: the PDF handler was called on a state whose current task is
\* a pending SEARCH_OPINIONS task, with errors already on record
C11_Witness ==
    /\ pc = "worker_returned"
    /\ inA = "pdf_handler"
    /\ state.current_task # None
    /\ current(state).task_type = SEARCH_OPINIONS
    /\ current(state).status = PENDING
    /\ state.errors > 0
    /\ outA = state

(* ---- C12 --------------------------------------------------------------- *)

\* the type of the task the step from s to t appended to task_history,
\* "none" if it appended none
created(s, t) ==
    IF Len(t.task_history) > Len(s.task_history)
    THEN history(t)[Len(t.task_history)].task_type
    ELSE "none"

\* the current task of s is of the given type and COMPLETED
just_completed(s, task_type) ==
    /\ s.current_task # None
    /\ current(s).task_type = task_type
    /\ current(s).status = COMPLETED

C13_NoKeywordsTerminates ==
    state.extracted_keywords = "empty" =>
        /\ of_type(state, SEARCH_OPINIONS) = {}
        /\ pc \in {"END", "returned"} =>
              /\ state.is_complete
              /\ of_type(state, EXPORT_DATA) = {}
              /\ ~state.csv_output_path

(* ---- C14 --------------------------------------------------------------- *)

\* a step of the manager node that did not end in the exception handler
manager_decided ==
    pc = "manager" /\ steps' = steps + 1 /\ state'.errors = state.errors

C15_CeilingTerminatesCleanly ==
    pc = "GraphRecursionError" => (state.is_complete /\ state.errors > 0)

(* ---- C16 --------------------------------------------------------------- *)

\* C16: however the run has stopped (the graph reached END and
\* run_workflow_async returned, or the recursion limit was hit), the report
\* has been generated from the final state.
C16_ReportAlwaysProduced ==
    pc \in {"returned", "GraphRecursionError"} => report # <<>>

(* ---- C18 --------------------------------------------------------------- *)

\* C18: no two tasks of task_history have the same task_id.
C18_UniqueTaskIds ==
    \A i, j \in DOMAIN state.task_history :
        i # j => history(state)[i].task_id # history(state)[j].task_id

(* ---- C20 --------------------------------------------------------------- *)

\* C20: a manager step appends at most one task to task_history, and the
\* task it appends is the new current_task and is PENDING.
C20_OneProposalPerStep ==
    [][(pc = "manager" /\ steps' = steps + 1) =>
          /\ Len(state'.task_history) <= Len(state.task_history) + 1
          /\ Len(state'.task_history) = Len(state.task_history) + 1 =>
                /\ state'.current_task = state'.task_history[Len(state'.task_history)]
                /\ state'.current_task # state.current_task
                /\ current(state').status = PENDING]_vars

\* C20 witness: the manager has just appended the fourth task of the run
C20_Witness ==
    /\ pc = "search_agent"
    /\ Len(state.task_history) = 4
    /\ state.current_task = 4
    /\ current(state).status = PENDING
    /\ history(state)[3].status = COMPLETED

(* ---- autodata/agents/manager.py ---------------------------------------- *)

\* the words route_agent looks for in the lower-cased name
Keywords ==
    {"planner", "web", "tool", "engineer", "test", "validation", "done", "finish"}

\* a name the LLM can answer with, as the set of the Keywords it contains
Names == {n \in SUBSET Keywords : Cardinality(n) <= MaxKeywords}

\* route_agent (lines 79-95): the first test that matches decides
route_agent(name) ==
    IF "planner" \in name THEN "WebAgent"
    ELSE IF "web" \in name THEN "ToolAgent"
    ELSE IF "tool" \in name THEN "EngineerAgent"
    ELSE IF "engineer" \in name THEN "TestAgent"
    ELSE IF "test" \in name THEN "ValidationAgent"
    ELSE IF "validation" \in name \/ "done" \in name \/ "finish" \in name THEN "[END]"
    ELSE "ManagerAgent"

\* the messages a state can hold on entry
Messages == {"Test message", "Plan created"}

\* the AgentState values (core/types.py lines 16-29) the manager is called on
AgentStates ==
    {[sender |-> sender, next |-> "ManagerAgent", messages |-> messages] :
        sender \in {"START", "TestSender", "ManagerAgent"},
        messages \in UNION {[1 .. n -> Messages] : n \in 0 .. MaxMessages}}

\* what chain.invoke does in one call: it raises, or it returns a response
\* with a next name and a message
Responses ==
    {[raised |-> TRUE, next |-> {}, message |-> "none"]} \cup
    {[raised |-> FALSE, next |-> name, message |-> "response"] : name \in Names}

\* ManagerAgent.__call__ (lines 51-77)
ManagerAgent_call(s, response) ==
    IF response.raised
    THEN [s EXCEPT !.messages = Append(@, "[Manager Error]"), !.next = "[END]"]
    ELSE [s EXCEPT !.messages = Append(@, response.message),
                   !.next = route_agent(response.next)]

\* inA is the state the manager is called on, inB what chain.invoke does,
\* outA the state the call returns
AutodataInit ==
    /\ pc = "autodata_manager"
    /\ steps = 0
    /\ now = 0
    /\ state = create_initial_state
    /\ report = <<>>
    /\ ever_current = {}
    /\ inA \in AgentStates
    /\ inB \in Responses
    /\ outA = "None"
    /\ outB = "None"

autodata_manager ==
    /\ pc = "autodata_manager"
    /\ outA' = ManagerAgent_call(inA, inB)
    /\ pc' = "autodata_returned"
    /\ UNCHANGED <<steps, now, state, report, ever_current, inA, inB, outB>>

SpecAutodata == AutodataInit /\ [][autodata_manager]_vars

(* ---- C19 --------------------------------------------------------------- *)

\* C19: when the call of the LLM chain raised, the state the manager returns
\* has sender "ManagerAgent", one more message than before, and the
\* manager's error message last.
C19_ManagerErrorHandling ==
    (pc = "autodata_returned" /\ inB.raised) =>
        /\ outA.sender = "ManagerAgent"
        /\ Len(outA.messages) > Len(inA.messages)
        /\ outA.messages[Len(outA.messages)] = "[Manager Error]"

(* ---- C17 --------------------------------------------------------------- *)

\* C17: a run takes at most RECURSION_LIMIT node steps: a step runs a node
\* and counts or stops the run, a run that has not stopped always has a
\* step to take, and steps never exceeds RECURSION_LIMIT.  It has stopped
\* only because the manager ended it (is_complete set, or no task made
\* current), because more than ERROR_THRESHOLD errors are on record, or
\* because the recursion limit was reached.
C17_Termination ==
    /\ [](steps <= RECURSION_LIMIT)
    /\ [](pc \notin {"returned", "GraphRecursionError"} => ENABLED Next)
    /\ [][\/ steps' = steps + 1 /\ pc \notin {"END", "returned", "GraphRecursionError"}
          \/ steps' = steps /\ pc' \in {"returned", "GraphRecursionError"}]_vars
    /\ [](pc \in {"END", "returned"} =>
             \/ state.is_complete
             \/ state.current_task = None
             \/ state.errors > ERROR_THRESHOLD)
    /\ [](pc = "GraphRecursionError" => steps >= RECURSION_LIMIT)

\* C17 witness: a run stopped by the error threshold alone, with a worker
\* failing on a task that stayed PENDING
C17_Witness ==
    /\ pc = "returned"
    /\ ~state.is_complete
    /\ state.errors > ERROR_THRESHOLD
    /\ steps < RECURSION_LIMIT
    /\ current(state).status = PENDING

(* ---- C21 --------------------------------------------------------------- *)

\* the chain of task types (manager.py lines 103-131, 150-152, 181)
chain == <<CRAWL_WEB, DOWNLOAD_PDF, EXTRACT_CONTENT, SEARCH_OPINIONS,
           SCRAPE_ARTICLES, EXPORT_DATA>>

\* the place of a task type in the chain
place(task_type) == CHOOSE i \in DOMAIN chain : chain[i] = task_type

\* C21: a manager step creates a task of a type other than CRAWL_WEB only
\* when task_history holds a COMPLETED task of the type before it in the
\* chain.
C21_DependencyOrder ==
    [][(pc = "manager" /\ steps' = steps + 1
        /\ created(state, state') \notin {"none", CRAWL_WEB})
          => chain[place(created(state, state')) - 1] \in completed_types(state)]_vars

(* ---- C22 --------------------------------------------------------------- *)

C23_LocalRecovery ==
    [][(/\ pc \in WorkerNodes
        /\ steps' = steps + 1
        /\ state'.errors = state.errors + 1
        /\ state'.errors <= ERROR_THRESHOLD)
          => pc' = "manager"]_vars

(* ---- the loop guards of the workers ------------------------------------ *)

\* the loop-guarded workers and the counter and ceiling each one reads
\* (res.py lines 184, 209-212 and 302, 315-317)
loop_guarded == {"article_analyzer", "exporter_agent"}

loop_count(node, s) ==
    IF node = "article_analyzer" THEN s.scrape_loop_count ELSE s.export_loop_count

MAX_LOOP(node) ==
    IF node = "article_analyzer" THEN SCRAPE_MAX_LOOP ELSE EXPORT_MAX_LOOP

\* the arguments of a loop-guarded worker: a state of a run whose two
\* counters, plain integers of AgentState, hold any value up to the ceiling
guard_states ==
    {[s EXCEPT !.scrape_loop_count = a, !.export_loop_count = b] :
        s \in {r \in run_states : r.current_task # None},
        a \in {0, SCRAPE_MAX_LOOP - 1, SCRAPE_MAX_LOOP},
        b \in {0, EXPORT_MAX_LOOP - 1, EXPORT_MAX_LOOP}}

LoopGuardInit ==
    /\ pc = "worker_call"
    /\ steps = 0
    /\ now = 0
    /\ state \in guard_states
    /\ report = <<>>
    /\ ever_current = {}
    /\ inA \in loop_guarded
    /\ inB = "None"
    /\ outA = "None"
    /\ outB = "None"

SpecLoopGuard == LoopGuardInit /\ [][call_worker]_vars

(* ---- C24 --------------------------------------------------------------- *)

C25_ErrorMessageOnlyWhenFailed ==
    \A i \in DOMAIN state.tasks :
        state.tasks[i].error_message => state.tasks[i].status = FAILED

(* ---- C26 --------------------------------------------------------------- *)

\* C26: the task types of task_history are, in order, the first types of
\* the chain: one task per type at most, six tasks at most.
C26_HistoryIsChainPrefix ==
    /\ Len(state.task_history) <= Len(chain)
    /\ \A i \in DOMAIN state.task_history : history(state)[i].task_type = chain[i]

\* C26 witness: all six tasks are in task_history and one of them is FAILED
C26_Witness ==
    /\ Len(state.task_history) = Len(chain)
    /\ \E i \in DOMAIN state.task_history : history(state)[i].status = FAILED

(* ---- C27 --------------------------------------------------------------- *)

\* C27: in every state of a run scrape_loop_count and export_loop_count are
\* at most 1.
C27_LoopCountersAtMostOne ==
    /\ state.scrape_loop_count <= 1
    /\ state.export_loop_count <= 1

(* ---- C28 --------------------------------------------------------------- *)

\* C28: no run reaches the recursion limit of the graph: the graph never
\* raises GraphRecursionError.
C28_NoGraphRecursionError ==
    pc # "GraphRecursionError"

(* ---- C29 --------------------------------------------------------------- *)

\* C29: in every state of a run at most ERROR_THRESHOLD + 1 errors are
\* recorded.
C29_ErrorsAtMostSix ==
    state.errors <= ERROR_THRESHOLD + 1

(* ---- C30 --------------------------------------------------------------- *)

\* C30: once the first manager step has been taken current_task is present
\* and is the last element of task_history.
C30_CurrentIsLastOfHistory ==
    steps >= 1 =>
        /\ state.current_task # None
        /\ Len(state.task_history) >= 1
        /\ state.current_task = state.task_history[Len(state.task_history)]

\* C30, for runs whose first manager step does not raise: once a task has
\* been created current_task is present and is the last element of
\* task_history.
C30_CurrentIsLastOnceCreated ==
    Len(state.task_history) >= 1 =>
        /\ state.current_task # None
        /\ state.current_task = state.task_history[Len(state.task_history)]

\* C30 witness: all six tasks exist, errors are on record, and the export
\* task that a worker has just completed is the current and the last task
C30_Witness ==
    /\ Len(state.task_history) = Len(chain)
    /\ state.errors >= 1
    /\ state.current_task = state.task_history[Len(chain)]
    /\ current(state).status = COMPLETED

====
